---- MODULE Spec2Model ----
(***************************************************************************)
(* rabbit-validator: the deployment planner (src/src/deploy.js) driven by  *)
(* the diff engine (src/src/diff.js), against a broker that applies the    *)
(* requests the planner issues.                                            *)
(***************************************************************************)
EXTENDS Integers, Sequences, FiniteSets, TLC

(***************************************************************************)
(* Bounds of the model.                                                    *)
(***************************************************************************)
\* How many resource identities the live state and the desired definitions
\* hold between them.
MaxResources == 4
\* How many resource identities the two snapshots given to diff hold between
\* them.
MaxDiffResources == 3
\* How many records the usage statistics hold.
MaxUsageRecords == 2

VhostNames == {"v1", "v2"}
UserNames == {"u1"}
ExchangeNames == {"e1"}
QueueNames == {"q1"}
DestinationTypes == {"queue", "exchange"}

\* The value JavaScript yields for a property a record does not have.
Undefined == "undefined"
\* No error raised / no failure reason.
NoError == [kind |-> "none"]

Types == {"vhosts", "users", "exchanges", "queues", "bindings", "permissions", "topic_permissions"}

(***************************************************************************)
(* Records.  Every record carries its identity fields and one field,       *)
(* attrs, standing for all its other content.                              *)
(***************************************************************************)
KeyFields(type) ==
    CASE type = "vhosts" -> {"name"}
      [] type = "users" -> {"name"}
      [] type = "exchanges" -> {"vhost", "name"}
      [] type = "queues" -> {"vhost", "name"}
      [] type = "permissions" -> {"vhost", "user"}
      [] type = "topic_permissions" -> {"vhost", "user"}
      [] type = "bindings" -> {"vhost", "source", "destination", "destination_type", "routing_key"}

\* The identity a HashSet keys a record by.
Identity(type, r) == [f \in KeyFields(type) |-> r[f]]

\* r.f in JavaScript: undefined when the record has no such property.
Field(r, f) == IF f \in DOMAIN r THEN r[f] ELSE Undefined

IdsOf(type) ==
    CASE type = "vhosts" -> [name : VhostNames]
      [] type = "users" -> [name : UserNames]
      [] type = "exchanges" -> [vhost : VhostNames, name : ExchangeNames]
      [] type = "queues" -> [vhost : VhostNames, name : QueueNames]
      [] type = "permissions" -> [vhost : VhostNames, user : UserNames]
      [] type = "topic_permissions" -> [vhost : VhostNames, user : UserNames]
      [] type = "bindings" ->
            { b \in [vhost : VhostNames, source : ExchangeNames,
                     destination : ExchangeNames \cup QueueNames,
                     destination_type : DestinationTypes, routing_key : {""}] :
                 IF b.destination_type = "queue" THEN b.destination \in QueueNames
                                                  ELSE b.destination \in ExchangeNames }

AllIds == UNION { { [type |-> t, id |-> i] : i \in IdsOf(t) } : t \in Types }

WithAttrs(id, a) == id @@ [attrs |-> a]

RECURSIVE SeqOf(_)
SeqOf(S) == IF S = {} THEN <<>>
            ELSE LET x == CHOOSE y \in S : TRUE IN <<x>> \o SeqOf(S \ {x})

Range(s) == { s[i] : i \in DOMAIN s }

(***************************************************************************)
(* diff.js                                                                 *)
(***************************************************************************)
HasIdentity(type, set, r) == \E i \in DOMAIN set : Identity(type, set[i]) = Identity(type, r)
Get(type, set, r) == set[CHOOSE i \in DOMAIN set : Identity(type, set[i]) = Identity(type, r)]

\* As isDeepStrictEqual, comparing the objects themselves (===): two records
\* read from two snapshots are never the same object.
isSameObject(a, b) == FALSE
\* As isDeepStrictEqual, comparing the identities only.
isSameIdentity(a, b) == TRUE
isDeepStrictEqual(a, b) == a = b

\* HashSet.delete: the set without the record of r's identity.
Delete(type, set, r) ==
    LET other(x) == Identity(type, x) # Identity(type, r) IN SelectSeq(set, other)

\* The two loops of diffMapsConsuming: the first takes the after items one by
\* one, removing each from both sets and classifying it; the second reports
\* what is left of before as deleted.
RECURSIVE diffLoop(_, _, _, _)
diffLoop(type, before, after, acc) ==
    IF after # <<>>
    THEN LET afterItem == Head(after)
             found == HasIdentity(type, before, afterItem)
             beforeItem == Get(type, before, afterItem)
         IN diffLoop(type, Delete(type, before, afterItem), Delete(type, after, afterItem),
                IF ~found
                THEN [acc EXCEPT !.added = Append(@, afterItem)]
                ELSE IF ~isDeepStrictEqual(beforeItem, afterItem)
                THEN [acc EXCEPT !.changed = Append(@, [before |-> beforeItem, after |-> afterItem])]
                ELSE [acc EXCEPT !.unaffected = Append(@, afterItem)])
    ELSE IF before # <<>>
    THEN diffLoop(type, Delete(type, before, Head(before)), after,
                  [acc EXCEPT !.deleted = Append(@, Head(before))])
    ELSE acc

\* As diffMapsConsuming, without before.delete(afterItem): the second loop
\* finds all of before.
diffMapsNotConsumingBefore(type, before, after) ==
    [diffLoop(type, before, after,
              [added |-> <<>>, deleted |-> <<>>, changed |-> <<>>, unaffected |-> <<>>])
        EXCEPT !.deleted = before]
\* As diffMapsConsuming, with before.get after before.delete: nothing is found.
diffMapsLookupAfterDelete(type, before, after) ==
    [added |-> after,
     deleted |-> diffLoop(type, before, after,
                    [added |-> <<>>, deleted |-> <<>>, changed |-> <<>>, unaffected |-> <<>>]).deleted,
     changed |-> <<>>,
     unaffected |-> <<>>]
diffMapsConsuming(type, before, after) ==
    diffLoop(type, before, after,
             [added |-> <<>>, deleted |-> <<>>, changed |-> <<>>, unaffected |-> <<>>])

\* As implicitlyAffectedBindings, matching a changed exchange against the
\* destination whatever the destination's type.
implicitlyAffectedBindingsAnyDestination(unaffected, changed) ==
    LET touches(b) ==
            \/ \E i \in DOMAIN changed.exchanges :
                  LET ex == changed.exchanges[i].before IN
                    /\ ex.vhost = b.vhost
                    /\ (ex.name = b.source \/ ex.name = b.destination)
            \/ /\ b.destination_type = "queue"
               /\ \E i \in DOMAIN changed.queues :
                     LET q == changed.queues[i].before IN
                       q.vhost = b.vhost /\ q.name = b.destination
    IN SelectSeq(unaffected.bindings, touches)
implicitlyAffectedBindings(unaffected, changed) ==
    LET touches(b) ==
            \/ \E i \in DOMAIN changed.exchanges :
                  LET ex == changed.exchanges[i].before IN
                    /\ ex.vhost = b.vhost
                    /\ \/ ex.name = b.source
                       \/ b.destination_type = "exchange" /\ ex.name = b.destination
            \/ /\ b.destination_type = "queue"
               /\ \E i \in DOMAIN changed.queues :
                     LET q == changed.queues[i].before IN
                       q.vhost = b.vhost /\ q.name = b.destination
    IN SelectSeq(unaffected.bindings, touches)

diff(beforeDef, afterDef) ==
    LET per == [t \in Types |-> diffMapsConsuming(t, beforeDef[t], afterDef[t])]
        added == [t \in Types |-> per[t].added]
        deleted == [t \in Types |-> per[t].deleted]
        changed == [t \in Types |-> per[t].changed]
        unaffected == [t \in Types |-> per[t].unaffected]
    IN [added |-> added,
        deleted |-> deleted,
        changed |-> changed,
        implicitlyAffected |-> [bindings |-> implicitlyAffectedBindings(unaffected, changed)]]

(***************************************************************************)
(* Definitions the program can be given: what a broker can hold.           *)
(***************************************************************************)
WellFormed(S) ==
    LET has(t, i) == \E x \in S : x.type = t /\ Identity(t, x.rec) = i IN
    /\ \A x \in S : "vhost" \in DOMAIN x.rec => has("vhosts", [name |-> x.rec.vhost])
    /\ \A x \in S : "user" \in DOMAIN x.rec => has("users", [name |-> x.rec.user])
    /\ \A x \in S : x.type = "bindings" =>
          /\ has("exchanges", [vhost |-> x.rec.vhost, name |-> x.rec.source])
          /\ IF x.rec.destination_type = "queue"
             THEN has("queues", [vhost |-> x.rec.vhost, name |-> x.rec.destination])
             ELSE has("exchanges", [vhost |-> x.rec.vhost, name |-> x.rec.destination])

Definitions(S) == [t \in Types |-> SeqOf({ x.rec : x \in { y \in S : y.type = t } })]

Classes == {"added", "deleted", "changed", "unaffected"}

\* The live and the desired resources of a scenario: each identity in play is
\* added, deleted, changed or unaffected.
LiveOf(I, cls) ==
    { [type |-> x.type, rec |-> WithAttrs(x.id, 0)] : x \in { y \in I : cls[y] # "added" } }
DesiredOf(I, cls) ==
    { [type |-> x.type, rec |-> WithAttrs(x.id, IF cls[x] = "changed" THEN 1 ELSE 0)] :
         x \in { y \in I : cls[y] # "deleted" } }

\* The identities in play reference only identities in play.
Closed(I) ==
    LET has(t, i) == [type |-> t, id |-> i] \in I IN
    \A x \in I :
        /\ "vhost" \in DOMAIN x.id => has("vhosts", [name |-> x.id.vhost])
        /\ "user" \in DOMAIN x.id => has("users", [name |-> x.id.user])
        /\ x.type = "bindings" =>
              /\ has("exchanges", [vhost |-> x.id.vhost, name |-> x.id.source])
              /\ IF x.id.destination_type = "queue"
                 THEN has("queues", [vhost |-> x.id.vhost, name |-> x.id.destination])
                 ELSE has("exchanges", [vhost |-> x.id.vhost, name |-> x.id.destination])

(***************************************************************************)
(* deploy.js: the request table C                                          *)
(***************************************************************************)
\* T: the destination type's letter in a binding's path.
T(destination_type) ==
    CASE destination_type = "exchange" -> "e"
      [] destination_type = "queue" -> "q"
      [] OTHER -> Undefined

\* The url`...` paths, one element per path segment.
PathOf(type, r) ==
    CASE type = "vhosts" -> <<"api", "vhosts", Field(r, "name")>>
      [] type = "users" -> <<"api", "users", Field(r, "name")>>
      [] type = "queues" -> <<"api", "queues", Field(r, "vhost"), Field(r, "name")>>
      [] type = "exchanges" -> <<"api", "exchanges", Field(r, "vhost"), Field(r, "name")>>
      [] type = "bindings" ->
            <<"api", "bindings", Field(r, "vhost"), "e", Field(r, "source"),
              T(Field(r, "destination_type")), Field(r, "destination")>>
      [] type = "permissions" -> <<"api", "permissions", Field(r, "vhost"), Field(r, "user")>>
      [] type = "topic_permissions" ->
            <<"api", "topic-permissions", Field(r, "vhost"), Field(r, "user")>>

\* r.properties_key || '~'
PropertiesKeyOr(r) ==
    IF Field(r, "properties_key") \in {Undefined, ""} THEN "~" ELSE r.properties_key

\* typeof C[op][type] === 'function'
HasC(op, type) ==
    \/ op \in {"added", "deleted"} /\ type \in Types
    \/ op = "changed" /\ type \in {"vhosts", "users", "permissions", "topic_permissions"}

\* C[op][type](r): <<method, url>>
C(op, type, r) ==
    CASE op = "added" -> <<IF type = "bindings" THEN "POST" ELSE "PUT", PathOf(type, r)>>
      [] op = "deleted" ->
            <<"DELETE", IF type = "bindings"
                        THEN Append(PathOf(type, r), PropertiesKeyOr(r))
                        ELSE PathOf(type, r)>>
      [] op = "changed" -> <<"PUT", PathOf(type, r)>>

(***************************************************************************)
(* deploy.js: deployResources and the plan of deploy                       *)
(***************************************************************************)

\* As ResourceArg, but sending the record the broker already holds.
ResourceArgBefore(resource) == IF "before" \in DOMAIN resource THEN resource.before ELSE resource
\* resource.after || resource
ResourceArg(resource) == IF "after" \in DOMAIN resource THEN resource.after ELSE resource


\* As notInDeletedVhost, with the filter letting every entry through.
notInDeletedVhostNoFilter(changes, r) == TRUE
\* notInDeletedVhost of deploy
notInDeletedVhost(changes, r) ==
    IF Len(changes.deleted.vhosts) # 0
    THEN \E i \in DOMAIN changes.deleted.vhosts :
            Field(r, "vhost") = Field(changes.deleted.vhosts[i], "vhost")
    ELSE TRUE

Batch(operation, type, override, filter) ==
    [operation |-> operation, type |-> type, operationOverride |-> override, filterFn |-> filter]


\* As AdditivePhase, with the queues created first.
AdditivePhaseQueuesFirst ==
    << Batch("added", "queues", "null", "null"),
       Batch("added", "users", "null", "null"),
       Batch("added", "exchanges", "null", "null"),
       Batch("added", "vhosts", "null", "null") >>
AdditivePhase ==
    << Batch("added", "vhosts", "null", "null"),
       Batch("added", "users", "null", "null"),
       Batch("added", "exchanges", "null", "null"),
       Batch("added", "queues", "null", "null") >>

MutatePhase ==
    << Batch("changed", "vhosts", "null", "null"),
       Batch("changed", "users", "null", "null") >>

\* As RecreatePhase, the bindings handled before the queues.
RecreatePhaseBindingsBeforeQueues ==
    << Batch("changed", "exchanges", "deleted", "null"),
       Batch("changed", "exchanges", "added", "null"),
       Batch("changed", "bindings", "deleted", "null"),
       Batch("changed", "bindings", "added", "null"),
       Batch("implicitlyAffected", "bindings", "added", "null"),
       Batch("changed", "queues", "deleted", "null"),
       Batch("changed", "queues", "added", "null") >>

RecreatePhase ==
    << Batch("changed", "exchanges", "deleted", "null"),
       Batch("changed", "exchanges", "added", "null"),
       Batch("changed", "queues", "deleted", "null"),
       Batch("changed", "queues", "added", "null"),
       Batch("changed", "bindings", "deleted", "null"),
       Batch("changed", "bindings", "added", "null"),
       Batch("implicitlyAffected", "bindings", "added", "null") >>

RemainingPhase ==
    << Batch("added", "bindings", "null", "null"),
       Batch("added", "permissions", "null", "null"),
       Batch("added", "topic_permissions", "null", "null"),
       Batch("changed", "permissions", "null", "null"),
       Batch("changed", "topic_permissions", "null", "null") >>

DeletionPhase ==
    << Batch("deleted", "topic_permissions", "null", "null"),
       Batch("deleted", "permissions", "null", "notInDeletedVhost"),
       Batch("deleted", "users", "null", "notInDeletedVhost"),
       Batch("deleted", "bindings", "null", "null"),
       Batch("deleted", "queues", "null", "null"),
       Batch("deleted", "exchanges", "null", "null"),
       Batch("deleted", "vhosts", "null", "null") >>


\* As OptionConflict, testing the wrong combination.
OptionConflictWrongFlag(o) == o.noDeletions /\ ~o.recreateChanged
\* if (noDeletions && recreateChanged) throw
OptionConflict(o) == o.noDeletions /\ o.recreateChanged

\* As RunsRecreatePhase, recreating whatever the option says.
RunsRecreatePhaseAlways(o) == TRUE
\* if (recreateChanged) { ... }
RunsRecreatePhase(o) == o.recreateChanged

\* As RunsDeletionPhase, deleting whatever the option says.
RunsDeletionPhaseAlways(o) == TRUE
\* if (!noDeletions) { ... }
RunsDeletionPhase(o) == ~o.noDeletions

\* The deployResources calls of deploy, in the order it awaits them.
Plan(o) ==
    AdditivePhase \o MutatePhase
        \o (IF RunsRecreatePhase(o) THEN RecreatePhase ELSE <<>>)
        \o RemainingPhase
        \o (IF RunsDeletionPhase(o) THEN DeletionPhase ELSE <<>>)

\* The operations one deployResources call starts: the entries that pass the
\* filter, each with the request it will issue.
BatchOps(changes, b) ==
    LET entries == changes[b.operation][b.type]
        keep(e) == b.filterFn = "null" \/ notInDeletedVhost(changes, e)
        eligible == SelectSeq(entries, keep)
        op == IF b.operationOverride = "null" THEN b.operation ELSE b.operationOverride
    IN [i \in DOMAIN eligible |->
          LET resourceArg == ResourceArg(eligible[i])
              req == IF HasC(op, b.type) THEN C(op, b.type, resourceArg)
                                         ELSE <<Undefined, <<>> >>
          IN [method |-> req[1], url |-> req[2], body |-> resourceArg, type |-> b.type,
              \* throw new Error(`Invalid operation ...`) rejects without a request
              state |-> IF HasC(op, b.type) THEN "sleeping" ELSE "rejected"]]

Settled(op) == op.state \in {"fulfilled", "rejected"}


\* As BatchJoined, waiting only until every request is on its way.
BatchDispatched(ops) == \A i \in DOMAIN ops : ops[i].state # "sleeping"
\* As BatchJoined, with Promise.all: the first rejection ends the wait.
BatchJoinedFailFast(ops) ==
    \/ \A i \in DOMAIN ops : ops[i].state = "fulfilled"
    \/ \E i \in DOMAIN ops : ops[i].state = "rejected"
\* await Promise.allSettled(...)
BatchJoined(ops) == \A i \in DOMAIN ops : Settled(ops[i])


\* As FirstFailure, taking the last failure of the batch.
LastFailure(ops) == CHOOSE i \in DOMAIN ops :
    /\ ops[i].state = "rejected"
    /\ \A j \in DOMAIN ops : ops[j].state = "rejected" => j <= i
\* failed[0]
FirstFailure(ops) == CHOOSE i \in DOMAIN ops :
    /\ ops[i].state = "rejected"
    /\ \A j \in DOMAIN ops : ops[j].state = "rejected" => i <= j

\* mutableResources of deploy
mutableResources == {"users", "permissions", "topic_permissions"}

RECURSIVE SumLen(_, _)
SumLen(map, types) ==
    IF types = {} THEN 0
    ELSE LET t == CHOOSE x \in types : TRUE IN Len(map[t]) + SumLen(map, types \ {t})

\* changedResourceCount of deploy
changedResourceCount(changes) == SumLen(changes.changed, Types \ mutableResources)

\* deletedResourceCount of deploy
deletedResourceCount(changes) == SumLen(changes.deleted, Types)

\* hasAddedPermissionsForVhosts of deploy
hasAddedPermissionsForVhosts(changes) ==
    \A i \in DOMAIN changes.added.vhosts :
        ~\E j \in DOMAIN changes.added.permissions :
            changes.added.permissions[j].vhost = changes.added.vhosts[i].name

\* 'There are added vhosts that lack permissions ...'
VhostWarnings(changes) ==
    IF Len(changes.added.vhosts) # 0 /\ hasAddedPermissionsForVhosts(changes)
    THEN {[kind |-> "addedVhostsLackPermissions"]}
    ELSE {}

\* `Ignoring ${changedResourceCount} changed resources ...`
ChangedWarnings(changes, o) ==
    IF changedResourceCount(changes) # 0 /\ ~o.recreateChanged
    THEN {[kind |-> "ignoringChanged", count |-> changedResourceCount(changes)]}
    ELSE {}

\* `Ignored ${deletedResourceCount} deleted resource(s) ...`
DeletedWarnings(changes, o) ==
    IF o.noDeletions /\ deletedResourceCount(changes) # 0
    THEN {[kind |-> "ignoredDeleted", count |-> deletedResourceCount(changes)]}
    ELSE {}

\* The next deployResources call, after call p, that issues a request; the
\* calls between issue none.
RECURSIVE NextBatch(_, _, _)
NextBatch(changes, plan, p) ==
    IF p + 1 > Len(plan) THEN Len(plan) + 1
    ELSE IF BatchOps(changes, plan[p + 1]) # <<>> THEN p + 1
    ELSE NextBatch(changes, plan, p + 1)

(***************************************************************************)
(* The broker                                                              *)
(***************************************************************************)
\* The properties key the broker files a binding under.
BrokerPropertiesKey(r) == IF r.routing_key = "" THEN "~" ELSE r.routing_key

\* The path under which the broker serves a resource.
BrokerPath(x) ==
    IF x.type = "bindings"
    THEN Append(PathOf(x.type, x.rec), BrokerPropertiesKey(x.rec))
    ELSE PathOf(x.type, x.rec)

\* What goes with a resource when the broker deletes it.
Cascaded(srv, x) ==
    CASE x.type = "vhosts" -> { y \in srv : Field(y.rec, "vhost") = x.rec.name }
      [] x.type = "exchanges" ->
            { y \in srv : /\ y.type = "bindings"
                          /\ y.rec.vhost = x.rec.vhost
                          /\ \/ y.rec.source = x.rec.name
                             \/ y.rec.destination_type = "exchange"
                                /\ y.rec.destination = x.rec.name }
      [] x.type = "queues" ->
            { y \in srv : /\ y.type = "bindings"
                          /\ y.rec.vhost = x.rec.vhost
                          /\ y.rec.destination_type = "queue"
                          /\ y.rec.destination = x.rec.name }
      [] OTHER -> {}

\* The broker's resources after it has served a request.
Apply(srv, op) ==
    LET new == [type |-> op.type, rec |-> op.body]
        same == { y \in srv : y.type = op.type /\ Identity(y.type, y.rec) = Identity(op.type, op.body) }
        hit == { y \in srv : BrokerPath(y) = op.url }
    IN CASE op.method \in {"PUT", "POST"} -> (srv \ same) \cup {new}
         [] op.method = "DELETE" -> (srv \ hit) \ UNION { Cascaded(srv, y) : y \in hit }

(***************************************************************************)
(* The state of one deploy run                                             *)
(***************************************************************************)
VARIABLES
    live,      \* the broker's resources when deploy starts
    desired,   \* the definitions to deploy
    opts,      \* deploy's third argument: noDeletions, recreateChanged (dryRun
               \* false, ignoreList null), or NoOptions
    changes,   \* the diff of the live state against the definitions
    pc,        \* "cli" (the deploy command, before it calls deploy), "start", "run" (inside the deployResources call `phase`), "done", "failed"
    phase,     \* the position in Plan(opts) of the running deployResources call
    ops,       \* the operations of the running call
    server,    \* the broker's resources
    history,   \* the requests issued and settled, in order
    error,     \* what deploy threw
    warnings,  \* the warnings deploy has printed
    usage      \* the state of one assertUsage call

vars == <<live, desired, opts, changes, pc, phase, ops, server, history, error, warnings, usage>>

\* No assertUsage call is under way.
NoUsage == [pc |-> "none"]

\* deploy called with two arguments: the third is undefined.
NoOptions == [omitted |-> TRUE]

\* The object pattern of deploy's third parameter has no default value: it
\* cannot destructure undefined.
CannotDestructure(o) == "omitted" \in DOMAIN o

EmptyChangeMap == [t \in Types |-> <<>>]
NoChanges == [added |-> EmptyChangeMap, deleted |-> EmptyChangeMap, changed |-> EmptyChangeMap,
              implicitlyAffected |-> [bindings |-> <<>>]]

Init ==
    /\ \E I \in SUBSET AllIds :
        /\ Cardinality(I) <= MaxResources
        /\ Closed(I)
        /\ \E cls \in [I -> Classes] :
              /\ WellFormed(LiveOf(I, cls))
              /\ WellFormed(DesiredOf(I, cls))
              /\ live = LiveOf(I, cls)
              /\ desired = DesiredOf(I, cls)
    /\ opts \in [noDeletions : BOOLEAN, recreateChanged : BOOLEAN]
    /\ changes = NoChanges
    /\ pc = "start"
    /\ phase = 0
    /\ ops = <<>>
    /\ server = live
    /\ history = <<>>
    /\ error = NoError
    /\ warnings = {}
    /\ usage = NoUsage

\* deploy up to its first deployResources call: the diff against the server
\* and the check of the options.
DiffServer ==
    /\ pc = "start"
    /\ LET ch == diff(Definitions(live), Definitions(desired)) IN
       IF CannotDestructure(opts)
       THEN /\ pc' = "failed"
            /\ error' = [kind |-> "TypeError"]
            /\ UNCHANGED <<changes, phase, ops, warnings>>
       ELSE
       /\ changes' = ch
       /\ IF OptionConflict(opts)
          THEN /\ pc' = "failed"
               /\ error' = [kind |-> "OptionConflict"]
               /\ warnings' = VhostWarnings(ch)
               /\ UNCHANGED <<phase, ops>>
          ELSE LET p == NextBatch(ch, Plan(opts), 0) IN
               /\ phase' = p
               /\ IF p > Len(Plan(opts))
                  THEN /\ pc' = "done" /\ ops' = <<>>
                       /\ warnings' = VhostWarnings(ch) \cup ChangedWarnings(ch, opts)
                                          \cup DeletedWarnings(ch, opts)
                  ELSE /\ pc' = "run" /\ ops' = BatchOps(ch, Plan(opts)[p])
                       /\ warnings' = VhostWarnings(ch) \cup ChangedWarnings(ch, opts)
               /\ UNCHANGED error
    /\ UNCHANGED <<live, desired, opts, server, history, usage>>

Event(ev, i) ==
    [ev |-> ev, batch |-> phase, idx |-> i, method |-> ops[i].method, url |-> ops[i].url,
     type |-> ops[i].type, body |-> ops[i].body]

\* An operation's sleep ends and it calls client.request.
Issue(i) ==
    /\ pc = "run"
    /\ ops[i].state = "sleeping"
    /\ ops' = [ops EXCEPT ![i].state = "inflight"]
    /\ history' = Append(history, Event("issue", i))
    /\ UNCHANGED <<live, desired, opts, changes, pc, phase, server, error, warnings, usage>>

\* The broker serves the request.
Fulfil(i) ==
    /\ pc = "run"
    /\ ops[i].state = "inflight"
    /\ ops' = [ops EXCEPT ![i].state = "fulfilled"]
    /\ server' = Apply(server, ops[i])
    /\ history' = Append(history, Event("fulfilled", i))
    /\ UNCHANGED <<live, desired, opts, changes, pc, phase, error, warnings, usage>>

\* The request fails.
Reject(i) ==
    /\ pc = "run"
    /\ ops[i].state = "inflight"
    /\ ops' = [ops EXCEPT ![i].state = "rejected"]
    /\ history' = Append(history, Event("rejected", i))
    /\ UNCHANGED <<live, desired, opts, changes, pc, phase, server, error, warnings, usage>>

\* The rest of deployResources once Promise.allSettled resolves, and the
\* start of the next call.
Join ==
    /\ pc = "run"
    /\ BatchJoined(ops)
    /\ IF \E i \in DOMAIN ops : ops[i].state = "rejected"
       THEN /\ pc' = "failed"
            /\ error' = [kind |-> "request", batch |-> phase, idx |-> FirstFailure(ops)]
            /\ UNCHANGED <<phase, ops, warnings>>
       ELSE LET p == NextBatch(changes, Plan(opts), phase) IN
            /\ phase' = p
            /\ IF p > Len(Plan(opts))
               THEN /\ pc' = "done" /\ ops' = <<>>
                    /\ warnings' = warnings \cup DeletedWarnings(changes, opts)
               ELSE /\ pc' = "run" /\ ops' = BatchOps(changes, Plan(opts)[p])
                    /\ UNCHANGED warnings
            /\ UNCHANGED error
    /\ UNCHANGED <<live, desired, opts, changes, server, history, usage>>

Next ==
    \/ DiffServer
    \/ \E i \in DOMAIN ops : Issue(i)
    \/ \E i \in DOMAIN ops : Fulfil(i)
    \/ \E i \in DOMAIN ops : Reject(i)
    \/ Join

Spec == Init /\ [][Next]_vars

(***************************************************************************)
(* cli.js: the deploy command                                              *)
(***************************************************************************)
InitCli ==
    /\ \E I \in SUBSET AllIds :
        /\ Cardinality(I) <= MaxResources
        /\ Closed(I)
        /\ \E cls \in [I -> Classes] :
              /\ WellFormed(LiveOf(I, cls))
              /\ WellFormed(DesiredOf(I, cls))
              /\ live = LiveOf(I, cls)
              /\ desired = DesiredOf(I, cls)
    /\ opts = NoOptions
    /\ changes = NoChanges
    /\ pc = "cli"
    /\ phase = 0
    /\ ops = <<>>
    /\ server = live
    /\ history = <<>>
    /\ error = NoError
    /\ warnings = {}
    /\ usage = NoUsage

\* commands.deploy: deploy(new URL(serverBaseUrl), readJSONSync(definitions)).
DeployCommand ==
    /\ pc = "cli"
    /\ opts' = NoOptions
    /\ pc' = "start"
    /\ UNCHANGED <<live, desired, changes, phase, ops, server, history, error, warnings, usage>>

\* The command, then deploy; the requests of deploy are those of Next, none
\* of which this call reaches.
NextCli ==
    \/ DeployCommand
    \/ DiffServer

SpecCli == InitCli /\ [][NextCli]_vars

(***************************************************************************)
(* diff on its own: two snapshots, as the diff command reads them          *)
(***************************************************************************)
DiffBinding(vhost, source, destination, destination_type) ==
    [type |-> "bindings",
     id |-> [vhost |-> vhost, source |-> source, destination |-> destination,
             destination_type |-> destination_type, routing_key |-> ""]]

\* The identities the snapshots draw from: exchanges of one name in two
\* vhosts, a queue that has the name of an exchange, bindings to a queue and
\* to an exchange of that name.
DiffIds ==
    { [type |-> "vhosts", id |-> [name |-> "v1"]],
      [type |-> "permissions", id |-> [vhost |-> "v1", user |-> "u1"]],
      [type |-> "exchanges", id |-> [vhost |-> "v1", name |-> "e1"]],
      [type |-> "exchanges", id |-> [vhost |-> "v1", name |-> "e2"]],
      [type |-> "exchanges", id |-> [vhost |-> "v2", name |-> "e1"]],
      [type |-> "queues", id |-> [vhost |-> "v1", name |-> "q1"]],
      [type |-> "queues", id |-> [vhost |-> "v1", name |-> "e1"]],
      DiffBinding("v1", "e1", "q1", "queue"),
      DiffBinding("v1", "e2", "e1", "exchange"),
      DiffBinding("v1", "e2", "e1", "queue") }

InitDiff ==
    /\ \E I \in SUBSET DiffIds :
        /\ Cardinality(I) <= MaxDiffResources
        /\ \E cls \in [I -> Classes] :
              /\ live = LiveOf(I, cls)
              /\ desired = DesiredOf(I, cls)
    /\ opts = [noDeletions |-> FALSE, recreateChanged |-> FALSE]
    /\ changes = NoChanges
    /\ pc = "diff"
    /\ phase = 0
    /\ ops = <<>>
    /\ server = {}
    /\ history = <<>>
    /\ error = NoError
    /\ warnings = {}
    /\ usage = NoUsage

\* diff(before, after), the snapshots being live and desired.
DiffRun ==
    /\ pc = "diff"
    /\ changes' = diff(Definitions(live), Definitions(desired))
    /\ pc' = "diffed"
    /\ UNCHANGED <<live, desired, opts, phase, ops, server, history, error, warnings, usage>>

NextDiff == DiffRun

SpecDiff == InitDiff /\ [][NextDiff]_vars

(***************************************************************************)
(* Properties                                                              *)
(***************************************************************************)
Events == DOMAIN history

\* Event e is a request about the resource r of the given type.
About(e, type, r) == e.type = type /\ Identity(type, e.body) = Identity(type, r)

IssuedFor(method, type, r) ==
    \E j \in Events : history[j].ev = "issue" /\ history[j].method = method
                      /\ About(history[j], type, r)

\* The broker's resources after the fulfilled requests of history[k..], in
\* order, starting from srv.
RECURSIVE Replay(_, _)
Replay(srv, k) ==
    IF k > Len(history) THEN srv
    ELSE Replay(IF history[k].ev = "fulfilled" THEN Apply(srv, history[k]) ELSE srv, k + 1)

\* The added vhosts paired with the added queues they hold.
AddedVhostQueuePairs ==
    { pr \in Range(changes.added.vhosts) \X Range(changes.added.queues) :
         pr[2].vhost = pr[1].name }

\* C1: whenever the create request of an added queue is issued, the create
\* request of the added vhost holding it has been issued and has completed.
C1_VhostCreatedBeforeQueue ==
    \A pr \in AddedVhostQueuePairs :
        \A j \in Events :
            ( /\ history[j].ev = "issue"
              /\ history[j].method = "PUT"
              /\ history[j].url = PathOf("queues", pr[2]) )
            => \E i \in 1..(j - 1) :
                  /\ history[i].ev = "fulfilled"
                  /\ history[i].method = "PUT"
                  /\ history[i].url = PathOf("vhosts", pr[1])

C1_Witness ==
    \E pr \in AddedVhostQueuePairs : IssuedFor("PUT", "queues", pr[2])

\* C2 (as claimed): a run that ends without error, with recreateChanged set
\* and noDeletions unset, leaves the broker holding exactly the desired
\* definitions.
C2_ServerEqualsDesired ==
    (pc = "done" /\ opts.recreateChanged /\ ~opts.noDeletions) => server = desired

\* The deleted vhosts paired with the deleted permissions scoped to them.
DeletedVhostPermissionPairs ==
    { pr \in Range(changes.deleted.vhosts) \X Range(changes.deleted.permissions) :
         pr[2].vhost = pr[1].name }

\* C3: when a vhost and a permission scoped to it are both deleted, no DELETE
\* request is issued for the permission.
C3_NoDeleteOfPermissionInDeletedVhost ==
    ~opts.noDeletions =>
        \A pr \in DeletedVhostPermissionPairs : ~IssuedFor("DELETE", "permissions", pr[2])

C3_Witness ==
    /\ pc = "done"
    /\ ~opts.noDeletions
    /\ \E pr \in DeletedVhostPermissionPairs : IssuedFor("DELETE", "vhosts", pr[1])

\* C4 (as claimed): a finished run with deletions has issued a DELETE for
\* every deleted permission whose vhost is not deleted and for every deleted
\* user.
C4_DeletesOutsideDeletedVhosts ==
    (pc = "done" /\ ~opts.noDeletions) =>
        /\ \A p \in Range(changes.deleted.permissions) :
              (\A v \in Range(changes.deleted.vhosts) : v.name # p.vhost)
              => IssuedFor("DELETE", "permissions", p)
        /\ \A u \in Range(changes.deleted.users) : IssuedFor("DELETE", "users", u)

\* C5: the requests of two deployResources calls never overlap: events are in
\* the order of the calls, and when a request is issued every request of an
\* earlier call has settled.
C5_BatchesDoNotOverlap ==
    \A j \in Events :
        \A i \in 1..(j - 1) :
            /\ history[i].batch <= history[j].batch
            /\ ( /\ history[i].ev = "issue"
                 /\ history[j].ev = "issue"
                 /\ history[i].batch < history[j].batch )
               => \E k \in (i + 1)..(j - 1) :
                     /\ history[k].ev \in {"fulfilled", "rejected"}
                     /\ history[k].batch = history[i].batch
                     /\ history[k].idx = history[i].idx

\* A call of two requests that settled in the reverse of their order was
\* followed by the request of a later call.
C5_Witness ==
    \E i, j, k \in Events :
        /\ i < j /\ j < k
        /\ history[i].ev = "fulfilled" /\ history[i].idx = 2
        /\ history[j].ev = "fulfilled" /\ history[j].idx = 1
        /\ history[j].batch = history[i].batch
        /\ history[k].ev = "issue" /\ history[k].batch > history[j].batch

\* C6: when an operation of a call failed, deploy throws the reason of the
\* failed operation of lowest index of that call, no request of a later call
\* is issued, and what the broker has applied stays applied.
C6_FirstFailureAborts ==
    /\ \A j \in Events : history[j].ev = "rejected" =>
          /\ history[j].batch = phase
          /\ pc \in {"run", "failed"}
    /\ (pc = "failed" /\ error.kind = "request") =>
          /\ error.batch = phase
          /\ error.idx \in DOMAIN ops
          /\ ops[error.idx].state = "rejected"
          /\ \A i \in DOMAIN ops : ops[i].state = "rejected" => error.idx <= i
          /\ \A j \in Events : history[j].batch <= error.batch
          /\ server = Replay(live, 1)

\* Two operations of a call failed, the second one first, after an earlier
\* call had changed the broker.
C6_Witness ==
    /\ pc = "failed"
    /\ error.kind = "request"
    /\ error.idx = 1
    /\ server # live
    /\ \E i, j \in Events :
          /\ i < j
          /\ history[i].ev = "rejected" /\ history[i].idx = 2
          /\ history[j].ev = "rejected" /\ history[j].idx = 1

\* C7: when deploy throws for a failed operation, every eligible operation of
\* that call has been issued and has settled.
C7_NoCancellation ==
    (pc = "failed" /\ error.kind = "request") =>
        /\ Len(ops) = Len(BatchOps(changes, Plan(opts)[phase]))
        /\ \A i \in DOMAIN ops :
              /\ Settled(ops[i])
              /\ \E j, k \in Events :
                    /\ j < k
                    /\ history[j].ev = "issue" /\ history[j].batch = phase /\ history[j].idx = i
                    /\ history[k].ev = ops[i].state /\ history[k].batch = phase
                    /\ history[k].idx = i

\* The first operation failed before the second was issued, and the second
\* went on to succeed.
C7_Witness ==
    /\ pc = "failed"
    /\ error.kind = "request"
    /\ \E i, j, k \in Events :
          /\ i < j /\ j < k
          /\ history[i].ev = "rejected" /\ history[i].batch = phase /\ history[i].idx = 1
          /\ history[j].ev = "issue" /\ history[j].batch = phase /\ history[j].idx = 2
          /\ history[k].ev = "fulfilled" /\ history[k].batch = phase /\ history[k].idx = 2

\* C8: with noDeletions and recreateChanged both set, deploy throws the
\* option conflict and no request that changes the broker is ever issued.
C8_OptionConflictIssuesNothing ==
    (opts.noDeletions /\ opts.recreateChanged) =>
        /\ \A j \in Events : history[j].method \notin {"PUT", "POST", "DELETE"}
        /\ server = live
        /\ pc # "start" => (pc = "failed" /\ error = [kind |-> "OptionConflict"])

C8_Witness ==
    /\ pc = "failed"
    /\ error = [kind |-> "OptionConflict"]
    /\ changes.added.vhosts # <<>>
    /\ changes.deleted.queues # <<>>

\* C9: with noDeletions set no DELETE request is ever issued, and every
\* resource the broker held at the start is still there unless a PUT or POST
\* has overwritten it.
C9_NoDeletionsIssuesNoDelete ==
    opts.noDeletions =>
        /\ \A j \in Events : history[j].method # "DELETE"
        /\ \A x \in live :
              \/ x \in server
              \/ \E j \in Events :
                    /\ history[j].ev = "fulfilled"
                    /\ history[j].method \in {"PUT", "POST"}
                    /\ About(history[j], x.type, x.rec)

C9_Witness ==
    /\ pc = "done"
    /\ opts.noDeletions
    /\ changes.deleted.vhosts # <<>>
    /\ changes.changed.exchanges # <<>>
    /\ history # <<>>

\* The resources deploy can only recreate.
RecreateOnly ==
    UNION { { [type |-> t, rec |-> c.before] : c \in Range(changes.changed[t]) } :
               t \in {"exchanges", "queues", "bindings"} }
        \cup { [type |-> "bindings", rec |-> b] : b \in Range(changes.implicitlyAffected.bindings) }

MutableTypes == {"vhosts", "users", "permissions", "topic_permissions"}

\* C10: without recreateChanged no request is issued for a changed exchange,
\* queue or binding nor for an implicitly affected binding, while every
\* request for a changed vhost, user, permission or topic_permission is a PUT
\* of the after record, and a finished run has had each of them served.
C10_ChangedWithoutRecreate ==
    ~opts.recreateChanged =>
        /\ \A j \in Events : \A x \in RecreateOnly : ~About(history[j], x.type, x.rec)
        /\ \A t \in MutableTypes : \A c \in Range(changes.changed[t]) :
              /\ \A j \in Events : About(history[j], t, c.after) =>
                    /\ history[j].method = "PUT"
                    /\ history[j].url = PathOf(t, c.after)
                    /\ history[j].body = c.after
              /\ pc = "done" =>
                    \E j \in Events : /\ history[j].ev = "fulfilled"
                                      /\ About(history[j], t, c.after)

C10_Witness ==
    /\ pc = "done"
    /\ ~opts.recreateChanged
    /\ changes.changed.vhosts # <<>>
    /\ changes.changed.users # <<>>
    /\ changes.changed.exchanges # <<>>
    /\ changes.implicitlyAffected.bindings # <<>>

\* The added vhosts for which no permission is added.
AddedVhostsWithoutPermission ==
    { v \in Range(changes.added.vhosts) :
         \A p \in Range(changes.added.permissions) : p.vhost # v.name }

\* C11 (as claimed): once deploy is past its pre-flight checks, the vhost
\* warning has been printed exactly when some added vhost has no added
\* permission.
C11_VhostWarningWhenAnyLacksPermission ==
    pc # "start" =>
        ([kind |-> "addedVhostsLackPermissions"] \in warnings
            <=> AddedVhostsWithoutPermission # {})

\* The changed resources deploy leaves alone without recreateChanged.
SkippedChangedCount ==
    Len(changes.changed.exchanges) + Len(changes.changed.queues) + Len(changes.changed.bindings)

\* C12 (as claimed): without recreateChanged, once deploy is past its
\* pre-flight checks, the skipped-changed warning has been printed exactly when
\* a changed exchange, queue or binding exists, and its count is their number.
C12_SkippedWarningCountsRecreateOnly ==
    (pc # "start" /\ ~opts.recreateChanged) =>
        /\ (\E w \in warnings : w.kind = "ignoringChanged") <=> SkippedChangedCount > 0
        /\ \A w \in warnings : w.kind = "ignoringChanged" => w.count = SkippedChangedCount

(***************************************************************************)
(* usage.js: assertUsage                                                   *)
(***************************************************************************)
\* The resources the definitions given to assertUsage may declare, by the
\* index that holds them.
UsageResources ==
    [vhost |-> { [name |-> n] : n \in VhostNames },
     exchange |-> { [vhost |-> "v1", name |-> "e1"], [vhost |-> "v1", name |-> "e2"] },
     queue |-> { [vhost |-> "v1", name |-> "q1"], [vhost |-> "v2", name |-> "q1"] }]

\* The usage records: a queue fed by an exchange, a queue alone, an exchange
\* alone.
UsageRecords ==
    { [vhost |-> "v1", exchange |-> "e1", queue |-> "q1"],
      [vhost |-> "v1", exchange |-> Undefined, queue |-> "q1"],
      [vhost |-> "v2", exchange |-> Undefined, queue |-> "q1"],
      [vhost |-> "v1", exchange |-> "e2", queue |-> Undefined] }

\* The types assertUsage checks, in the order it checks them; "return" ends
\* the list.
UsageTypes == <<"vhost", "exchange", "queue", "return">>

\* C.unusedFailureThreshold, each ratio as a fraction.
unusedFailureThreshold ==
    [vhost |-> [num |-> 3, den |-> 10],
     exchange |-> [num |-> 3, den |-> 10],
     queue |-> [num |-> 3, den |-> 10]]

\* Index.fromDefinitions: one index per type, keyed by name and vhost.
IndexFromDefinitions(definitions) == definitions

\* The key under which the index of the given type holds what u names.
UsedKey(type, u) ==
    IF type = "vhost" THEN [name |-> u.vhost]
    ELSE [vhost |-> u.vhost, name |-> u[type]]

\* The warnings of the first loop: used, but not declared.
MissingWarnings(index, usageStats) ==
    LET missing(type, u) ==
            IF UsedKey(type, u) \in index[type] THEN {}
            ELSE {[kind |-> "usedButMissing", type |-> type, item |-> UsedKey(type, u)]}
    IN UNION { IF u.exchange # Undefined
               THEN missing("exchange", u) \cup missing("queue", u)
               ELSE missing("queue", u) : u \in Range(usageStats) }

\* The second loop: what a usage record names leaves the index.
RECURSIVE DeleteUsed(_, _)
DeleteUsed(index, usageStats) ==
    IF usageStats = <<>> THEN index
    ELSE LET u == Head(usageStats)
             vhostGone == [index EXCEPT !.vhost = @ \ {UsedKey("vhost", u)}]
         IN DeleteUsed(
                IF u.exchange # Undefined
                THEN [vhostGone EXCEPT !.exchange = @ \ {UsedKey("exchange", u)},
                                       !.queue = @ \ {UsedKey("queue", u)}]
                ELSE [vhostGone EXCEPT !.queue = @ \ {UsedKey("queue", u)}],
                Tail(usageStats))

\* Whether the unused resources of a type are looked at, given how many the
\* index of the type held.
Checked(type, sizeBefore, unused) ==
    /\ IF type = "vhost" THEN sizeBefore > 1 ELSE sizeBefore # 0
    /\ unused # {}

\* ratio < C.unusedFailureThreshold[type], the ratio being unused / sizeBefore.
BelowThreshold(type, unused, sizeBefore) ==
    unused * unusedFailureThreshold[type].den < unusedFailureThreshold[type].num * sizeBefore

\* The next type to check.
After_(type) ==
    UsageTypes[1 + CHOOSE i \in DOMAIN UsageTypes : UsageTypes[i] = type]

InitUsage ==
    /\ \E definitions \in [vhost : SUBSET UsageResources.vhost,
                            exchange : SUBSET UsageResources.exchange,
                            queue : SUBSET UsageResources.queue] :
       \E stats \in SUBSET UsageRecords :
       \E throwOnFirstError \in BOOLEAN :
          /\ Cardinality(stats) <= MaxUsageRecords
          /\ usage = [pc |-> "start",
                      definitions |-> definitions,
                      usageStats |-> SeqOf(stats),
                      throwOnFirstError |-> throwOnFirstError,
                      index |-> [vhost |-> {}, exchange |-> {}, queue |-> {}],
                      sizeBefore |-> [vhost |-> 0, exchange |-> 0, queue |-> 0],
                      failures |-> <<>>,
                      thrown |-> NoError,
                      returned |-> FALSE]
    /\ live = {}
    /\ desired = {}
    /\ opts = [noDeletions |-> FALSE, recreateChanged |-> FALSE]
    /\ changes = NoChanges
    /\ pc = "usage"
    /\ phase = 0
    /\ ops = <<>>
    /\ server = {}
    /\ history = <<>>
    /\ error = NoError
    /\ warnings = {}

\* assertUsage up to the checks: the index, the warnings about what is used
\* and not declared, the sizes, the deletion of what is used.
IndexUsage ==
    /\ usage.pc = "start"
    /\ LET index == IndexFromDefinitions(usage.definitions) IN
         /\ warnings' = warnings \cup MissingWarnings(index, usage.usageStats)
         /\ usage' = [usage EXCEPT
                         !.pc = UsageTypes[1],
                         !.sizeBefore = [t \in DOMAIN index |-> Cardinality(index[t])],
                         !.index = DeleteUsed(index, usage.usageStats)]
    /\ UNCHANGED <<live, desired, opts, changes, pc, phase, ops, server, history, error>>

\* The check of the unused resources of one type: vhosts, then exchanges,
\* then queues.
CheckUnused(type) ==
    /\ usage.pc = type
    /\ LET unused == usage.index[type]
           sizeBefore == usage.sizeBefore[type]
           failure == [kind |-> "High ratio of unused", type |-> type,
                       unused |-> Cardinality(unused), of |-> sizeBefore]
       IN IF Checked(type, sizeBefore, unused)
          THEN /\ warnings' = warnings \cup
                      { [kind |-> "empiricallyUnused", type |-> type, item |-> i] : i \in unused }
               /\ usage' =
                      IF BelowThreshold(type, Cardinality(unused), sizeBefore)
                      THEN [usage EXCEPT !.pc = After_(type)]
                      ELSE IF usage.throwOnFirstError
                      THEN [usage EXCEPT !.pc = "thrown", !.thrown = failure]
                      ELSE [usage EXCEPT !.pc = After_(type),
                                         !.failures = Append(@, failure)]
          ELSE /\ usage' = [usage EXCEPT !.pc = After_(type)]
               /\ UNCHANGED warnings
    /\ UNCHANGED <<live, desired, opts, changes, pc, phase, ops, server, history, error>>

\* return assert.collectFailures()
ReturnFailures ==
    /\ usage.pc = "return"
    /\ usage' = [usage EXCEPT !.pc = "returned", !.returned = TRUE]
    /\ UNCHANGED <<live, desired, opts, changes, pc, phase, ops, server, history, error, warnings>>

NextUsage ==
    \/ IndexUsage
    \/ \E type \in DOMAIN unusedFailureThreshold : CheckUnused(type)
    \/ ReturnFailures

SpecUsage == InitUsage /\ [][NextUsage]_vars

\* The two snapshots diff was given, and what diffMapsConsuming makes of one
\* type of them.
Before == Definitions(live)
After == Definitions(desired)
Classified(t) == diffMapsConsuming(t, Before[t], After[t])

IdentitiesOf(t, records) == { Identity(t, r) : r \in records }

\* How many entries of the sequence s satisfy P.
Occurrences(s, P(_)) == Cardinality({ i \in DOMAIN s : P(s[i]) })

\* C13: diff completeness, for every type: every after record is in exactly
\* one of added, changed, unaffected; every before record in exactly one of
\* deleted, changed, unaffected; the identities of the four classes are
\* disjoint and make up the identities of both snapshots; and diff returns
\* these classes.
C13_DiffComplete ==
    \A t \in Types :
        LET r == Classified(t)
            ids(c) == IF c = "changed"
                      THEN IdentitiesOf(t, { x.after : x \in Range(r.changed) })
                      ELSE IdentitiesOf(t, Range(r[c]))
        IN /\ \A a \in Range(After[t]) :
                 LET isA(x) == x = a
                     isChangedTo(x) == x.after = a
                 IN Occurrences(r.added, isA) + Occurrences(r.changed, isChangedTo)
                        + Occurrences(r.unaffected, isA) = 1
           /\ \A b \in Range(Before[t]) :
                 LET isB(x) == x = b
                     isChangedFrom(x) == x.before = b
                 IN Occurrences(r.deleted, isB) + Occurrences(r.changed, isChangedFrom)
                        + Occurrences(r.unaffected, isB) = 1
           /\ \A c1, c2 \in Classes : c1 # c2 => ids(c1) \cap ids(c2) = {}
           /\ UNION { ids(c) : c \in Classes }
                 = IdentitiesOf(t, Range(Before[t])) \cup IdentitiesOf(t, Range(After[t]))
           /\ Len(r.added) + Len(r.deleted) + Len(r.changed) + Len(r.unaffected)
                 = Cardinality(IdentitiesOf(t, Range(Before[t]) \cup Range(After[t])))
           /\ pc = "diffed" =>
                 /\ changes.added[t] = r.added
                 /\ changes.deleted[t] = r.deleted
                 /\ changes.changed[t] = r.changed

C13_Witness ==
    /\ pc = "diffed"
    /\ changes.added.exchanges # <<>>
    /\ changes.deleted.exchanges # <<>>
    /\ changes.changed.exchanges # <<>>

\* The records of a type in a snapshot.
RecordsOf(S, t) == { x.rec : x \in { y \in S : y.type = t } }

\* C14: for every type the classes are those of the reference definition,
\* read off the two snapshots: added is in after only, deleted in before
\* only, changed in both with different records (both kept), unaffected in
\* both with the same record; no record is listed twice.
C14_ClassificationMatchesReference ==
    pc = "diffed" =>
        \A t \in Types :
            LET B == RecordsOf(live, t)
                A == RecordsOf(desired, t)
                r == Classified(t)
                same(b, a) == Identity(t, b) = Identity(t, a)
                refAdded == { a \in A : \A b \in B : ~same(b, a) }
                refDeleted == { b \in B : \A a \in A : ~same(b, a) }
                refChanged == { [before |-> p[1], after |-> p[2]] :
                                   p \in { q \in B \X A : same(q[1], q[2]) /\ q[1] # q[2] } }
                refUnaffected == { a \in A : \E b \in B : same(b, a) /\ b = a }
            IN /\ Range(changes.added[t]) = refAdded
               /\ Len(changes.added[t]) = Cardinality(refAdded)
               /\ Range(changes.deleted[t]) = refDeleted
               /\ Len(changes.deleted[t]) = Cardinality(refDeleted)
               /\ Range(changes.changed[t]) = refChanged
               /\ Len(changes.changed[t]) = Cardinality(refChanged)
               /\ Range(r.unaffected) = refUnaffected
               /\ Len(r.unaffected) = Cardinality(refUnaffected)

\* Queue q1 with one more property after than before: one changed queue, no
\* added, deleted or unaffected queue.
C14_Witness ==
    /\ pc = "diffed"
    /\ live = {[type |-> "queues", rec |-> [vhost |-> "v1", name |-> "q1", attrs |-> 0]]}
    /\ desired = {[type |-> "queues", rec |-> [vhost |-> "v1", name |-> "q1", attrs |-> 1]]}
    /\ changes.changed.queues = <<[before |-> [vhost |-> "v1", name |-> "q1", attrs |-> 0],
                                  after |-> [vhost |-> "v1", name |-> "q1", attrs |-> 1]]>>
    /\ changes.added.queues = <<>>
    /\ changes.deleted.queues = <<>>
    /\ Classified("queues").unaffected = <<>>

\* The resources of the given type that are in both snapshots, with
\* different records: their before records.
ChangedIn(t) ==
    { x.rec : x \in { y \in live : /\ y.type = t
                                   /\ y \notin desired
                                   /\ \E z \in desired :
                                         z.type = t /\ Identity(t, z.rec) = Identity(t, y.rec) } }

\* C15: the implicitly affected bindings are the bindings that are the same
\* in both snapshots and whose source, or exchange destination, is a changed
\* exchange of their vhost, or whose queue destination is a changed queue of
\* their vhost; none is listed twice.
C15_ImplicitBindings ==
    pc = "diffed" =>
        LET ref == { b \in RecordsOf(live, "bindings") \cap RecordsOf(desired, "bindings") :
                       \/ \E ex \in ChangedIn("exchanges") :
                             /\ ex.vhost = b.vhost
                             /\ \/ ex.name = b.source
                                \/ b.destination_type = "exchange" /\ ex.name = b.destination
                       \/ \E q \in ChangedIn("queues") :
                             /\ q.vhost = b.vhost
                             /\ b.destination_type = "queue"
                             /\ q.name = b.destination }
        IN /\ Range(changes.implicitlyAffected.bindings) = ref
           /\ Len(changes.implicitlyAffected.bindings) = Cardinality(ref)

\* Exchange e1 changed: the unaffected binding to the exchange e1 is listed,
\* the unaffected binding to the queue named e1 is not.
C15_Witness ==
    /\ pc = "diffed"
    /\ Len(changes.changed.exchanges) = 1
    /\ changes.changed.exchanges[1].before.name = "e1"
    /\ Len(Classified("bindings").unaffected) = 2
    /\ Len(changes.implicitlyAffected.bindings) = 1
    /\ changes.implicitlyAffected.bindings[1].destination_type = "exchange"
    /\ changes.implicitlyAffected.bindings[1].source = "e2"

\* C16: symmetry: what diff(X, Y) reports added is what diff(Y, X) reports
\* deleted, and the other way round, for every type.
C16_Symmetry ==
    pc = "diffed" =>
        LET back == diff(After, Before) IN
        \A t \in Types :
            /\ Range(changes.added[t]) = Range(back.deleted[t])
            /\ Len(changes.added[t]) = Len(back.deleted[t])
            /\ Range(changes.deleted[t]) = Range(back.added[t])
            /\ Len(changes.deleted[t]) = Len(back.added[t])

C16_Witness ==
    /\ pc = "diffed"
    /\ changes.added.exchanges # <<>>
    /\ changes.deleted.exchanges # <<>>
    /\ Classified("exchanges").unaffected # <<>>

\* C17: idempotence: a snapshot diffed against itself has nothing added,
\* deleted, changed or implicitly affected, and all its resources unaffected.
C17_Idempotence ==
    /\ \A X \in {Before, After} :
          /\ diff(X, X) = NoChanges
          /\ \A t \in Types : diffMapsConsuming(t, X[t], X[t]).unaffected = X[t]
    /\ (pc = "diffed" /\ live = desired) =>
          /\ changes = NoChanges
          /\ \A t \in Types : Range(Classified(t).unaffected) = RecordsOf(live, t)

\* An exchange and two bindings on it, diffed against themselves.
C17_Witness ==
    /\ pc = "diffed"
    /\ live = desired
    /\ Cardinality(RecordsOf(live, "exchanges")) = 1
    /\ Cardinality(RecordsOf(live, "bindings")) = 2

\* The after records of the changed resources of a type.
ChangedAfter(t) == { x.after : x \in Range(changes.changed[t]) }

\* The steps of the recreate phase, in the order the claim gives them: the
\* method, the type and the resources each sends a request for.
RecreateSteps ==
    << [method |-> "DELETE", type |-> "exchanges", of |-> ChangedAfter("exchanges")],
       [method |-> "PUT", type |-> "exchanges", of |-> ChangedAfter("exchanges")],
       [method |-> "DELETE", type |-> "queues", of |-> ChangedAfter("queues")],
       [method |-> "PUT", type |-> "queues", of |-> ChangedAfter("queues")],
       [method |-> "DELETE", type |-> "bindings", of |-> ChangedAfter("bindings")],
       [method |-> "POST", type |-> "bindings", of |-> ChangedAfter("bindings")],
       [method |-> "POST", type |-> "bindings",
        of |-> Range(changes.implicitlyAffected.bindings)] >>

\* Event e is a request of the given step.
InStep(e, step) ==
    /\ e.method = step.method
    /\ \E r \in step.of : About(e, step.type, r)

\* All the requests of the step have completed before history[j].
StepJoinedBefore(step, j) ==
    \A r \in step.of :
        \E k \in 1..(j - 1) : /\ history[k].ev = "fulfilled"
                              /\ history[k].method = step.method
                              /\ About(history[k], step.type, r)

\* C18: with recreateChanged, a request of a step of the recreate phase is
\* issued only after all the requests of the steps before it have completed;
\* and every binding create (changed, implicitly affected, added) is issued
\* only after the creates of all added and changed exchanges and queues have
\* completed.
C18_RecreateOrder ==
    opts.recreateChanged =>
        \A j \in Events :
            history[j].ev = "issue" =>
                /\ \A s \in DOMAIN RecreateSteps :
                      InStep(history[j], RecreateSteps[s]) =>
                          \A before \in 1..(s - 1) : StepJoinedBefore(RecreateSteps[before], j)
                /\ (history[j].method = "POST" /\ history[j].type = "bindings") =>
                      \A t \in {"exchanges", "queues"} :
                          StepJoinedBefore([method |-> "PUT", type |-> t,
                                            of |-> ChangedAfter(t) \cup Range(changes.added[t])], j)

\* A changed exchange and a changed queue have been deleted and re-created
\* and the binding between them, implicitly affected, is being created.
C18_Witness ==
    /\ opts.recreateChanged
    /\ changes.changed.exchanges # <<>>
    /\ changes.changed.queues # <<>>
    /\ \E j \in Events :
          /\ history[j].ev = "issue"
          /\ InStep(history[j], RecreateSteps[Len(RecreateSteps)])

\* The broker's resources when history[n] happens: live, after the fulfilled
\* requests of history[k..n-1].
RECURSIVE ReplayUntil(_, _, _)
ReplayUntil(srv, k, n) ==
    IF k >= n THEN srv
    ELSE ReplayUntil(IF history[k].ev = "fulfilled" THEN Apply(srv, history[k]) ELSE srv,
                     k + 1, n)

\* C19 (as claimed): when a DELETE request is issued the broker still holds
\* the resource it targets: no earlier request of the run has removed it, by
\* itself or by cascade.
C19_DeleteTargetsExist ==
    \A j \in Events :
        (history[j].ev = "issue" /\ history[j].method = "DELETE") =>
            \E y \in ReplayUntil(live, 1, j) : BrokerPath(y) = history[j].url

\* The declared resources of a type that no usage record references.
Unreferenced(type) ==
    { d \in usage.definitions[type] :
         \A u \in Range(usage.usageStats) : UsedKey(type, u) # d }

\* The fraction of the declared resources of the type that no usage record
\* references exceeds the type's threshold.
ExceedsThreshold(type) ==
    /\ usage.definitions[type] # {}
    /\ Cardinality(Unreferenced(type)) * unusedFailureThreshold[type].den
          > unusedFailureThreshold[type].num * Cardinality(usage.definitions[type])

\* C20 (as claimed): when assertUsage has ended, for each of vhosts,
\* exchanges and queues whose fraction of unreferenced resources exceeds the
\* threshold, a failure of that type is among the returned failures, or,
\* with throwOnFirstError, was thrown, unless the failure of a type checked
\* before it was thrown.
C20_HighRatioReported ==
    \A i \in 1..(Len(UsageTypes) - 1) :
        LET type == UsageTypes[i] IN
        ExceedsThreshold(type) =>
            /\ usage.returned =>
                  \E k \in DOMAIN usage.failures : usage.failures[k].type = type
            /\ usage.pc = "thrown" =>
                  \E j \in 1..i : usage.thrown.type = UsageTypes[j]
            /\ (usage.pc \in {"returned", "thrown"} /\ usage.throwOnFirstError) =>
                  usage.pc = "thrown"

\* C21 (as claimed): deploy called by the deploy command, without options,
\* runs with the defaults and, no request failing, ends without an error.
C21_CliDeployEndsWithoutError ==
    /\ error.kind = "none"
    /\ pc # "failed"
    /\ pc \notin {"cli", "start"} =>
          /\ ~CannotDestructure(opts)
          /\ ~opts.noDeletions
          /\ ~opts.recreateChanged
====
